---- MODULE Spec2Model ----
(***************************************************************************)
(* socketio-signaler: the room-scoped signaling relay (signaler.js) and    *)
(* the client-side peer-connection orchestrator (signaler-client).         *)
(*                                                                         *)
(* Spec       : the relay, driven by channels that connect, send any       *)
(*              message and close.                                         *)
(* ClientSpec : one client, driven by any relay message, by the            *)
(*              application's calls and by its transport's callbacks.      *)
(* SessionSpec: the relay and two clients running the client code.         *)
(* LeaveSpec  : the same session, in which a client's channel may close.   *)
(***************************************************************************)
EXTENDS Integers, Sequences, FiniteSets, TLC

\* ------------------------------------------------------------------ bounds
\* the ids the relay can give a channel; an id whose channel never connected or
\* has closed is the "nonexistent-id" of a routing miss
MaxClients == 3
\* how many messages the clients send in all
MaxSends == 2
\* how many channels close
MaxCloses == 1
\* how many relay messages the client receives
MaxRecv == 2
\* how many times the application adds or removes the local stream
MaxCalls == 2
\* how many streams a session description received from the relay can carry
MaxStreams == 2

Ids == 1..MaxClients
\* the value of an absent id field
NoId == MaxClients + 1
\* the value of an absent payload; the payload of the n-th message sent is n
NoPayload == MaxSends + 1

\* how deep receiveIceCandidate looks for the candidate: data.candidate.candidate.candidate
CandidateDepth == 3

TargetedKinds == {"offer", "answer", "icecandidate"}
BareKinds == {"peerconnected", "streamremoved"}
RoutedKinds == TargetedKinds \cup BareKinds

VARIABLES
  clients,   \* relay: this.clients, the sockets of the room in push order (a socket is its id)
  status,    \* channel of each id: "new" (never connected), "open", "closed"
  toRelay,   \* per channel: the messages the client sent that the relay has not handled yet
  toClient,  \* per channel: the messages the relay emitted that the client has not handled yet
  out,       \* the messages the relay emitted in the last step, in emission order
  last,      \* history: the event of the last step and the client message it handled
  inbox,     \* history, per channel: the relayed (routed) messages emitted to it, in order
  announced, \* history, per channel: the ids named to it by newconnection or a list reply
  departed,  \* history, per channel: the ids named to it by disconnect
  joinedAt,  \* history: the rank of each current member's connection (0: not a member)
  nsent      \* history: how many messages the clients have sent

relayVars == <<clients, status, toRelay, toClient, out, last, inbox, announced, departed, joinedAt, nsent>>

VARIABLES
  spc,       \* client: per id, the SignallerPeerConnection object, its peers, handles and callbacks
  did,       \* history: the client's last step: the handler, the id it named, whether the table had it
  nrecv,     \* history: how many relay messages the client has received
  ncalls,    \* history: how many times the application added or removed the local stream
  tally      \* history: the last call of the application, whether it removed the local stream
             \* of a client holding a remote stream, and the remoteStreamRemoved notifications since

clientVars == <<spc, did, nrecv, ncalls, tally>>
vars == <<relayVars, clientVars>>

\* ----------------------------------------------------------------- helpers
Range(s) == {s[k] : k \in 1..Len(s)}

\* Array.prototype.splice(index, 1); index is 1-based here
Splice(s, index) == SubSeq(s, 1, index - 1) \o SubSeq(s, index + 1, Len(s))

\* ------------------------------------------------------------------ client
\* a transport handle (RTCPeerConnection): the peer object its handlers were
\* bound for, its signaling state, how many local streams were added to it,
\* how many remote streams it holds, the `suppress` its onaddstream handler
\* closed over, whether a remote candidate was added, its candidate event
\* ("none": no local description yet, "ready": to fire, "fired"), and
\* (history) whether its onaddstream has fired
Connection(e, suppress) ==
  [peer |-> e, sig |-> "stable", local |-> 0, remote |-> 0, suppress |-> suppress,
   ice |-> FALSE, cand |-> "none", heard |-> FALSE]

\* new SignallerPeerConnection(): no peers, no local stream, nothing pending.
\* peers holds every peer object ever created (a callback keeps its peer after
\* the table dropped it); peerConnections holds the indexes of the table's.
NewClient ==
  [peerConnections |-> <<>>, peers |-> <<>>, conns |-> <<>>, localStream |-> FALSE,
   tasks |-> <<>>, offered |-> {}, farSide |-> {}, sent |-> <<>>, events |-> <<>>,
   log |-> <<>>, errors |-> 0, threw |-> FALSE]

\* socket.emit(kind, ...) towards the relay; log holds the emissions of both
\* kinds in the order they were made
SocketEmit(cs, kind, target, stream) ==
  [cs EXCEPT !.sent = Append(@, [kind |-> kind, target |-> target, stream |-> stream]),
             !.log = Append(@, [to |-> "socket", name |-> kind])]

\* this.emit(name, ..., id) towards the application
AppEmit(cs, name, id) ==
  [cs EXCEPT !.events = Append(@, [name |-> name, id |-> id]),
             !.log = Append(@, [to |-> "app", name |-> name])]

\* this.logError
LogError(cs) == [cs EXCEPT !.errors = @ + 1]

\* an exception leaves the handler
Throw(cs) == [cs EXCEPT !.threw = TRUE]

\* a handler starts: sent, events, log, errors and threw hold what one handler did
Enter(cs) ==
  [cs EXCEPT !.sent = <<>>, !.events = <<>>, !.log = <<>>, !.errors = 0, !.threw = FALSE]

\* a transport operation was invoked: its callback is pending. t: the operation;
\* e: the peer object its callback closed over; h: the handle it was invoked on;
\* type: offer or answer; by: the handle that created the description (0: the
\* remote side); stream: how many streams the description carries
Task(t, e, h, type, by, stream) ==
  [t |-> t, e |-> e, h |-> h, type |-> type, by |-> by, stream |-> stream]

Pending(cs, t, e, h, type, by, stream) ==
  [cs EXCEPT !.tasks = Append(@, Task(t, e, h, type, by, stream))]

\* a handle runs its operations one at a time, in the order they were invoked:
\* the pending operations that can complete next
Runnable(cs, op) ==
  {k \in 1..Len(cs.tasks) :
     /\ cs.tasks[k].t = op
     /\ \A j \in 1..(k - 1) : cs.tasks[j].h # cs.tasks[k].h}

\* hasPeer
HasPeer(cs, id) == \E k \in 1..Len(cs.peerConnections) : cs.peers[cs.peerConnections[k]].id = id

\* the scan of getPeer: the last peer of the table with this id; 0 stands for undefined
RECURSIVE FoundPeerFrom(_, _, _, _)
FoundPeerFrom(cs, id, index, found) ==
  IF index > Len(cs.peerConnections) THEN found
  ELSE FoundPeerFrom(cs, id, index + 1,
         IF cs.peers[cs.peerConnections[index]].id = id THEN cs.peerConnections[index] ELSE found)

FoundPeer(cs, id) == FoundPeerFrom(cs, id, 1, 0)

\* createOffer: the transport's createOffer is invoked on the peer's handle
CreateOffer(cs, e) == Pending(cs, "createOffer", e, cs.peers[e].connection, "offer", 0, 0)

\* mutant: createOffer is invoked twice
AddStreamToPeer_twice(cs, e) ==
  CreateOffer(CreateOffer([cs EXCEPT !.conns[cs.peers[e].connection].local = @ + 1], e), e)

\* addStreamToPeer
AddStreamToPeer(cs, e) ==
  CreateOffer([cs EXCEPT !.conns[cs.peers[e].connection].local = @ + 1], e)

\* mutant: the hasPeer guard is missing
AddPeer_unguarded(cs, id, suppress) ==
  LET e == Len(cs.peers) + 1
      h == Len(cs.conns) + 1
      added == [cs EXCEPT !.peers = Append(@, [id |-> id, connection |-> h]),
                          !.conns = Append(@, Connection(e, suppress)),
                          !.peerConnections = Append(@, e)]
  IN IF added.localStream THEN AddStreamToPeer(added, e) ELSE added

\* addPeer: a new peer with a new handle, its events bound with `suppress`,
\* pushed on the table, and offered the local stream if there is one
AddPeer(cs, id, suppress) ==
  IF HasPeer(cs, id) THEN cs
  ELSE LET e == Len(cs.peers) + 1
           h == Len(cs.conns) + 1
           added == [cs EXCEPT !.peers = Append(@, [id |-> id, connection |-> h]),
                               !.conns = Append(@, Connection(e, suppress)),
                               !.peerConnections = Append(@, e)]
       IN IF added.localStream THEN AddStreamToPeer(added, e) ELSE added

\* getPeer: the client after the lookup (a missing peer is added) ...
GetPeer(cs, id) == IF FoundPeer(cs, id) = 0 THEN AddPeer(cs, id, FALSE) ELSE cs

\* ... and the peer it returns
GotPeer(cs, id) == FoundPeer(GetPeer(cs, id), id)

\* getPeerList
GetPeerList(cs) == SocketEmit(cs, "list", NoId, 0)

\* generateConnections: peers.forEach(addPeer) passes the array index as `suppress`
RECURSIVE GenerateConnectionsFrom(_, _, _)
GenerateConnectionsFrom(cs, list, index) ==
  IF index > Len(list) THEN cs
  ELSE GenerateConnectionsFrom(AddPeer(cs, list[index], index - 1 # 0), list, index + 1)

GenerateConnections(cs, list) == GenerateConnectionsFrom(cs, list, 1)

\* createAnswer: setRemoteDescription(offer) is invoked on the sender's handle
CreateAnswer(cs, data) ==
  LET got == GetPeer(cs, data.sender)
      e == GotPeer(cs, data.sender)
  IN Pending(got, "setRemote", e, got.peers[e].connection, "offer", 0, data.stream)

\* handleAnswer: setRemoteDescription(answer) is invoked on the sender's handle
HandleAnswer(cs, data) ==
  LET got == GetPeer(cs, data.sender)
      e == GotPeer(cs, data.sender)
  IN Pending(got, "setRemote", e, got.peers[e].connection, "answer", 0, data.stream)

\* peerConnected
PeerConnected(cs, id) == AppEmit(cs, "peerconnected", id)

\* peerConnected as the handler of the relay's peerconnected message; farSide
\* (history) holds the ids whose peerconnected message was received
FarSideConnected(cs, id) == PeerConnected([cs EXCEPT !.farSide = @ \cup {id}], id)

\* the removal loop of disconnectConnection: forEach with a splice inside
RECURSIVE RemovePeerFrom(_, _, _)
RemovePeerFrom(cs, id, index) ==
  IF index > Len(cs.peerConnections) THEN cs
  ELSE IF cs.peers[cs.peerConnections[index]].id = id
       THEN RemovePeerFrom([cs EXCEPT !.peerConnections = Splice(@, index)], id, index + 1)
       ELSE RemovePeerFrom(cs, id, index + 1)

\* mutant: the first entry of the table is removed, whatever its id
DisconnectConnection_spliceFirst(cs, id) ==
  LET got == GetPeer(cs, id)
      e == GotPeer(cs, id)
      closed == [got EXCEPT !.conns[got.peers[e].connection].sig = "closed"]
      told == AppEmit(AppEmit(closed, "peerDisconnected", id), "remoteStreamRemoved", id)
  IN [told EXCEPT !.peerConnections = Splice(@, 1)]

\* disconnectConnection
DisconnectConnection(cs, id) ==
  LET got == GetPeer(cs, id)
      e == GotPeer(cs, id)
      closed == [got EXCEPT !.conns[got.peers[e].connection].sig = "closed"]
  IN RemovePeerFrom(AppEmit(AppEmit(closed, "peerDisconnected", id), "remoteStreamRemoved", id), id, 1)

\* regenStream: a new handle replaces the peer's; the old one is left as it is
RegenStream(cs, e, suppress) ==
  LET s == suppress /\ cs.conns[cs.peers[e].connection].remote # 0
      h == Len(cs.conns) + 1
      fresh == [cs EXCEPT !.conns = Append(@, Connection(e, s)), !.peers[e].connection = h]
  IN IF fresh.localStream THEN AddStreamToPeer(fresh, e) ELSE fresh

\* mutant: the peer whose stream was removed is dropped as on a disconnect
RemoveRemoteStream_disconnects(cs, id) == DisconnectConnection(cs, id)

\* mutant: the handle of every peer of the table is replaced
RemoveRemoteStream_everyPeer(cs, id) ==
  LET told == AppEmit(cs, "remoteStreamRemoved", id)
      got == GetPeer(told, id)
      Regen[k \in 0..Len(got.peerConnections)] ==
        IF k = 0 THEN got ELSE RegenStream(Regen[k - 1], got.peerConnections[k], FALSE)
  IN Regen[Len(got.peerConnections)]

\* mutant: the application is not told
RemoveRemoteStream_silent(cs, id) == RegenStream(GetPeer(cs, id), GotPeer(cs, id), FALSE)

\* removeRemoteStream
RemoveRemoteStream(cs, id) ==
  LET told == AppEmit(cs, "remoteStreamRemoved", id)
  IN RegenStream(GetPeer(told, id), GotPeer(told, id), FALSE)

\* mutant: a payload nested one level less is taken too
ReceiveIceCandidate_shallow(cs, data) ==
  IF data.depth >= CandidateDepth - 1
  THEN LET got == GetPeer(cs, data.sender)
           e == GotPeer(cs, data.sender)
       IN [got EXCEPT !.conns[got.peers[e].connection].ice = TRUE]
  ELSE cs

\* receiveIceCandidate: addIceCandidate is called with data.candidate.candidate.candidate
\* on the sender's handle if data, data.candidate, data.candidate.candidate and
\* data.candidate.candidate.candidate are all there
ReceiveIceCandidate(cs, data) ==
  IF data.depth >= CandidateDepth
  THEN LET got == GetPeer(cs, data.sender)
           e == GotPeer(cs, data.sender)
       IN [got EXCEPT !.conns[got.peers[e].connection].ice = TRUE]
  ELSE cs

\* addStream: addStreamToPeer for every peer of the table
RECURSIVE AddStreamFrom(_, _)
AddStreamFrom(cs, index) ==
  IF index > Len(cs.peerConnections) THEN cs
  ELSE AddStreamFrom(AddStreamToPeer(cs, cs.peerConnections[index]), index + 1)

\* the getUserMedia callback of addLocalStream
AddLocalStream(cs) ==
  AppEmit(AddStreamFrom([cs EXCEPT !.localStream = TRUE], 1), "localStreamAdded", NoId)

\* the loop of removeLocalStream: streamremoved to the peer, then its handle is replaced
RECURSIVE RemoveLocalStreamFrom(_, _)
RemoveLocalStreamFrom(cs, index) ==
  IF index > Len(cs.peerConnections) THEN cs
  ELSE LET e == cs.peerConnections[index]
       IN RemoveLocalStreamFrom(
            RegenStream(SocketEmit(cs, "streamremoved", cs.peers[e].id, 0), e, TRUE), index + 1)

\* mutant: the removal goes on when there is no local stream
RemoveLocalStream_withoutStream(cs) ==
  AppEmit(RemoveLocalStreamFrom([cs EXCEPT !.localStream = FALSE], 1), "localStreamRemoved", NoId)

\* mutant: the reference to the local stream is kept
RemoveLocalStream_keepsReference(cs) ==
  IF ~cs.localStream THEN Throw(cs)
  ELSE AppEmit(RemoveLocalStreamFrom(cs, 1), "localStreamRemoved", NoId)

\* removeLocalStream: this.localStream.stop() throws when there is no local stream
RemoveLocalStream(cs) ==
  IF ~cs.localStream THEN Throw(cs)
  ELSE AppEmit(RemoveLocalStreamFrom([cs EXCEPT !.localStream = FALSE], 1), "localStreamRemoved", NoId)

\* ------------------------------------------------------------ Room Registry
\* findSocket: scans every client, keeps the last match; 0 stands for `false`
RECURSIVE FindSocketFrom(_, _, _, _)
FindSocketFrom(cl, id, index, found) ==
  IF index > Len(cl) THEN found
  ELSE FindSocketFrom(cl, id, index + 1, IF cl[index] = id THEN cl[index] ELSE found)

\* mutant: the scan starts one element late
FindSocket_skipFirst(cl, id) == FindSocketFrom(cl, id, 2, 0)

\* mutant: foundClient is assigned for every client, matching or not
FindSocket_anyClient(cl, id) == IF cl = <<>> THEN 0 ELSE cl[Len(cl)]

FindSocket(cl, id) == FindSocketFrom(cl, id, 1, 0)

\* mutant: the caller is not excluded
GetUserIds_all(cl, currentId) == cl

\* getUserIds: the ids of the other clients, in array order
GetUserIds(cl, currentId) == SelectSeq(cl, LAMBDA c : c # currentId)

\* removeUser: forEach with a splice inside; after a splice the element that
\* moved into the freed slot is skipped, as Array.prototype.forEach does
RECURSIVE RemoveUserFrom(_, _, _)
RemoveUserFrom(cl, id, index) ==
  IF index > Len(cl) THEN cl
  ELSE IF cl[index] = id THEN RemoveUserFrom(Splice(cl, index), id, index + 1)
  ELSE RemoveUserFrom(cl, id, index + 1)

\* mutant: the splice removes the element before the match
RemoveUser_offByOne(cl, id) ==
  IF \E k \in 1..Len(cl) : cl[k] = id
  THEN LET k == CHOOSE k \in 1..Len(cl) : cl[k] = id IN Splice(cl, IF k > 1 THEN k - 1 ELSE k)
  ELSE cl

RemoveUser(cl, id) == RemoveUserFrom(cl, id, 1)

\* --------------------------------------------------------- relay emissions
\* one emitted message: the channel it goes to, its name, the id it carries
\* (sender / new member / leaver), the relayed payload, the list reply,
\* the send number of the client message it relays (0: none), and the registry
\* at the time of the emit
Emit(to, kind, id, payload, list, n, reg) ==
  [to |-> to, kind |-> kind, id |-> id, payload |-> payload, list |-> list, n |-> n, reg |-> reg]

\* socket.broadcast.to(room).emit / namespace.emit: one emit per recipient
Broadcast(recipients, kind, id, reg) ==
  [k \in 1..Len(recipients) |-> Emit(recipients[k], kind, id, NoPayload, <<>>, 0, reg)]

\* socket.broadcast.to(room): the sockets of the room except the emitting one
RoomOthers(reg, socket) == SelectSeq(reg, LAMBDA c : c # socket)

\* mutant: the sender is read from the payload
RelayedTargeted_payloadSender(senderId, data) == [sender |-> data.sender, payload |-> data.payload]

\* {sender: this.id, offer: data.offer} (answer, candidate alike)
RelayedTargeted(senderId, data) == [sender |-> senderId, payload |-> data.payload]

\* ------------------------------------------------------------------- Init
\* a connected client's message: its channel, name, target, payload, a `sender`
\* field the client put in the payload, its send number, and (history) whether
\* the relay had named the target to the client when it sent the message
Msg(from, kind, target, payload, sender, n, known) ==
  [from |-> from, kind |-> kind, target |-> target, payload |-> payload, sender |-> sender,
   n |-> n, known |-> known]

NoMsg == Msg(NoId, "none", NoId, NoPayload, NoId, 0, FALSE)

Event(op, i, m) == [op |-> op, id |-> i, msg |-> m]

Init ==
  /\ clients = <<>>
  /\ status = [i \in Ids |-> "new"]
  /\ toRelay = [i \in Ids |-> <<>>]
  /\ toClient = [i \in Ids |-> <<>>]
  /\ out = <<>>
  /\ last = Event("none", NoId, NoMsg)
  /\ inbox = [i \in Ids |-> <<>>]
  /\ announced = [i \in Ids |-> {}]
  /\ departed = [i \in Ids |-> {}]
  /\ joinedAt = [i \in Ids |-> 0]
  /\ nsent = 0
  /\ spc = [c \in Ids |-> NewClient]
  /\ did = [op |-> "none", id |-> NoId, had |-> FALSE, depth |-> 0]
  /\ nrecv = 0
  /\ ncalls = 0
  /\ tally = [armed |-> FALSE, n |-> 0]

\* the histories after the relay emitted `emits`
Emitted(emits) ==
  /\ out' = emits
  /\ toClient' = [r \in Ids |-> toClient[r] \o SelectSeq(emits, LAMBDA e : e.to = r)]
  /\ inbox' = [r \in Ids |-> inbox[r] \o SelectSeq(emits, LAMBDA e : e.to = r /\ e.kind \in RoutedKinds)]
  /\ announced' = [r \in Ids |-> announced[r]
        \cup {e.id : e \in {x \in Range(emits) : x.to = r /\ x.kind = "newconnection"}}
        \cup UNION {Range(e.list) : e \in {x \in Range(emits) : x.to = r /\ x.kind = "list"}}]
  /\ departed' = [r \in Ids |-> departed[r]
        \cup {e.id : e \in {x \in Range(emits) : x.to = r /\ x.kind = "disconnect"}}]
  /\ UNCHANGED clientVars

\* ------------------------------------------------------------ environment
\* the id another participant has: what a client may put in a `sender` field
OtherId(i) == (i % MaxClients) + 1

Send(m) ==
  /\ toRelay' = [toRelay EXCEPT ![m.from] = Append(@, m)]
  /\ nsent' = m.n
  /\ last' = Event("send", m.from, m)
  /\ Emitted(<<>>)
  /\ UNCHANGED <<clients, status, joinedAt>>

\* a connected client sends a message over its channel
ClientSend(i) ==
  /\ status[i] = "open"
  /\ nsent < MaxSends
  /\ \/ Send(Msg(i, "list", NoId, NoPayload, NoId, nsent + 1, FALSE))
     \/ \E kind \in TargetedKinds, target \in Ids :
          Send(Msg(i, kind, target, nsent + 1, OtherId(i), nsent + 1, target \in announced[i]))
     \/ \E kind \in BareKinds, target \in Ids :
          Send(Msg(i, kind, target, NoPayload, NoId, nsent + 1, target \in announced[i]))

\* ------------------------------------------------------------------ relay
Handled(i, op) ==
  /\ toRelay' = [toRelay EXCEPT ![i] = Tail(@)]
  /\ last' = Event(op, i, Head(toRelay[i]))
  /\ UNCHANGED <<status, joinedAt, nsent>>

Connected(i) ==
  /\ status' = [status EXCEPT ![i] = "open"]
  /\ joinedAt' = [joinedAt EXCEPT ![i] = Cardinality({j \in Ids : status[j] # "new"}) + 1]
  /\ last' = Event("connection", i, NoMsg)
  /\ UNCHANGED <<toRelay, nsent>>

\* mutant: newconnection goes to the whole room
OnConnection_broadcastAll(i) ==
  /\ status[i] = "new"
  /\ LET reg == Append(clients, i) IN
     /\ clients' = reg
     /\ Emitted(<<Emit(i, "initialized", NoId, NoPayload, <<>>, 0, reg)>>
                \o Broadcast(reg, "newconnection", i, reg))
  /\ Connected(i)

\* mutant: nobody is told of the new member
OnConnection_silent(i) ==
  /\ status[i] = "new"
  /\ LET reg == Append(clients, i) IN
     /\ clients' = reg
     /\ Emitted(<<Emit(i, "initialized", NoId, NoPayload, <<>>, 0, reg)>>)
  /\ Connected(i)

\* mutant: initialized is emitted before the socket is pushed
OnConnection_lateRegister(i) ==
  /\ status[i] = "new"
  /\ LET reg == Append(clients, i) IN
     /\ clients' = reg
     /\ Emitted(<<Emit(i, "initialized", NoId, NoPayload, <<>>, 0, clients)>>
                \o Broadcast(RoomOthers(reg, i), "newconnection", i, reg))
  /\ Connected(i)

\* room.on('connection'): push, initialized to the socket, newconnection to the others
OnConnection(i) ==
  /\ status[i] = "new"
  /\ LET reg == Append(clients, i) IN
     /\ clients' = reg
     /\ Emitted(<<Emit(i, "initialized", NoId, NoPayload, <<>>, 0, reg)>>
                \o Broadcast(RoomOthers(reg, i), "newconnection", i, reg))
  /\ Connected(i)

\* mutant: the list handler registers the socket again
OnList_rejoin(i) ==
  /\ toRelay[i] # <<>> /\ Head(toRelay[i]).kind = "list"
  /\ clients' = Append(clients, i)
  /\ Emitted(<<Emit(i, "list", NoId, NoPayload, GetUserIds(clients, i), Head(toRelay[i]).n, clients)>>)
  /\ Handled(i, "list")

\* socket.on('list')
OnList(i) ==
  /\ toRelay[i] # <<>> /\ Head(toRelay[i]).kind = "list"
  /\ Emitted(<<Emit(i, "list", NoId, NoPayload, GetUserIds(clients, i), Head(toRelay[i]).n, clients)>>)
  /\ Handled(i, "list")
  /\ UNCHANGED clients

\* the shape shared by the offer, answer and icecandidate handlers
RouteTargeted(i, kind) ==
  /\ toRelay[i] # <<>> /\ Head(toRelay[i]).kind = kind
  /\ LET data == Head(toRelay[i])
         recipient == FindSocket(clients, data.target)
         relayed == RelayedTargeted(i, data)
     IN Emitted(IF recipient # 0
                THEN <<Emit(recipient, kind, relayed.sender, relayed.payload, <<>>, data.n, clients)>>
                ELSE <<>>)
  /\ Handled(i, kind)
  /\ UNCHANGED clients

\* the shape shared by the peerconnected and streamremoved handlers: the payload is the target
RouteBare(i, kind) ==
  /\ toRelay[i] # <<>> /\ Head(toRelay[i]).kind = kind
  /\ LET data == Head(toRelay[i])
         recipient == FindSocket(clients, data.target)
     IN Emitted(IF recipient # 0
                THEN <<Emit(recipient, kind, i, NoPayload, <<>>, data.n, clients)>>
                ELSE <<>>)
  /\ Handled(i, kind)
  /\ UNCHANGED clients

OnOffer(i) == RouteTargeted(i, "offer")
OnAnswer(i) == RouteTargeted(i, "answer")
OnIcecandidate(i) == RouteTargeted(i, "icecandidate")
OnPeerconnected(i) == RouteBare(i, "peerconnected")
OnStreamremoved(i) == RouteBare(i, "streamremoved")

Disconnected(i) ==
  /\ status' = [status EXCEPT ![i] = "closed"]
  /\ joinedAt' = [joinedAt EXCEPT ![i] = 0]
  /\ toRelay' = [toRelay EXCEPT ![i] = <<>>]
  /\ last' = Event("disconnect", i, NoMsg)
  /\ UNCHANGED nsent

\* socket.on('disconnect'): the channel closed; what it had in flight is gone
OnDisconnect(i) ==
  /\ status[i] = "open"
  /\ Cardinality({j \in Ids : status[j] = "closed"}) < MaxCloses
  /\ LET reg == RemoveUser(clients, i) IN
     /\ clients' = reg
     /\ Emitted(Broadcast(reg, "disconnect", i, reg))
  /\ Disconnected(i)

Next ==
  \E i \in Ids :
    \/ OnConnection(i)
    \/ ClientSend(i)
    \/ OnList(i)
    \/ OnOffer(i)
    \/ OnAnswer(i)
    \/ OnIcecandidate(i)
    \/ OnPeerconnected(i)
    \/ OnStreamremoved(i)
    \/ OnDisconnect(i)

Spec == Init /\ [][Next]_vars

\* ------------------------------------------------------- client: messages
\* the client the relay gave this id, and the ids of the others
Me == 1
PeerIds == Ids \ {Me}

\* the list replies the relay can send: the other ids, none twice, in any order
Lists == {<<>>} \cup {<<a>> : a \in PeerIds}
           \cup ({<<a, b>> : a, b \in PeerIds} \ {<<a, a>> : a \in PeerIds})

\* the client's handler `op`, naming `id`, took the client to cs
RanOn(c, op, id, depth, cs) ==
  /\ spc' = [spc EXCEPT ![c] = cs]
  /\ did' = [op |-> op, id |-> id, had |-> HasPeer(spc[c], id), depth |-> depth]
  /\ UNCHANGED <<relayVars, tally>>

Ran(c, op, id, cs) == RanOn(c, op, id, 0, cs)

Received(c, op, id, cs) ==
  /\ nrecv < MaxRecv
  /\ nrecv' = nrecv + 1
  /\ Ran(c, op, id, cs)
  /\ UNCHANGED ncalls

RecvInitialized(c) == Received(c, "initialized", NoId, GetPeerList(Enter(spc[c])))

RecvList(c) ==
  \E list \in Lists : Received(c, "list", NoId, GenerateConnections(Enter(spc[c]), list))

RecvNewconnection(c) ==
  \E id \in PeerIds : Received(c, "newconnection", id, AddPeer(Enter(spc[c]), id, FALSE))

RecvOffer(c) ==
  \E sender \in PeerIds, stream \in 0..MaxStreams :
    Received(c, "offer", sender, CreateAnswer(Enter(spc[c]), [sender |-> sender, stream |-> stream]))

RecvAnswer(c) ==
  \E sender \in PeerIds, stream \in 0..MaxStreams :
    Received(c, "answer", sender, HandleAnswer(Enter(spc[c]), [sender |-> sender, stream |-> stream]))

\* the payload holds `depth` nested candidate fields: 0 for no data.candidate,
\* CandidateDepth for what onicecandidate sends through the relay
RecvIcecandidate(c) ==
  \E sender \in PeerIds, depth \in 0..CandidateDepth :
    /\ nrecv < MaxRecv
    /\ nrecv' = nrecv + 1
    /\ RanOn(c, "icecandidate", sender, depth,
             ReceiveIceCandidate(Enter(spc[c]), [sender |-> sender, depth |-> depth]))
    /\ UNCHANGED ncalls

RecvPeerconnected(c) ==
  \E id \in PeerIds : Received(c, "peerconnected", id, FarSideConnected(Enter(spc[c]), id))

RecvStreamremoved(c) ==
  \E id \in PeerIds : Received(c, "streamremoved", id, RemoveRemoteStream(Enter(spc[c]), id))

RecvDisconnect(c) ==
  \E id \in PeerIds : Received(c, "disconnect", id, DisconnectConnection(Enter(spc[c]), id))

\* ---------------------------------------------------- client: application
Called(c, op, cs) ==
  /\ ncalls < MaxCalls
  /\ ncalls' = ncalls + 1
  /\ Ran(c, op, NoId, cs)
  /\ UNCHANGED nrecv

CallAddLocalStream(c) == Called(c, "addLocalStream", AddLocalStream(Enter(spc[c])))

CallRemoveLocalStream(c) == Called(c, "removeLocalStream", RemoveLocalStream(Enter(spc[c])))

\* ------------------------------------------------------ client: transport
Done(cs, k) == [Enter(cs) EXCEPT !.tasks = Splice(@, k)]

\* the callbacks of createOffer (createOffer): on success the offer is sent
\* (sendOffer runs while the arguments of setLocalDescription are evaluated)
\* and setLocalDescription is invoked on the handle the peer has by then
OnOfferCreated(cs0, k) ==
  LET t == cs0.tasks[k]
      ok == cs0.conns[t.h].sig # "closed"
      cs == Done(cs0, k)
      id == cs.peers[t.e].id
      sent == [SocketEmit(cs, "offer", id, cs.conns[t.h].local) EXCEPT !.offered = @ \cup {id}]
  IN IF ok THEN Pending(sent, "setLocal", t.e, sent.peers[t.e].connection, "offer", t.h, 0)
     ELSE LogError(cs)

\* setLocalDescription is valid for an offer in stable or have-local-offer and
\* for an answer in have-remote-offer; its success callback is undefined
OnLocalDescriptionSet(cs0, k) ==
  LET t == cs0.tasks[k]
      ok == \/ t.type = "offer" /\ cs0.conns[t.h].sig \in {"stable", "have-local-offer"}
            \/ t.type = "answer" /\ cs0.conns[t.h].sig = "have-remote-offer"
      cs == Done(cs0, k)
  IN IF ok
     THEN [cs EXCEPT !.conns[t.h].sig = IF t.type = "offer" THEN "have-local-offer" ELSE "stable",
                     !.conns[t.h].cand = IF @ = "none" THEN "ready" ELSE @]
     ELSE LogError(cs)

\* onaddstream of handle h: proxied unless the handler was bound with suppress
OnAddStream(cs, h) ==
  LET fired == [cs EXCEPT !.conns[h].heard = TRUE]
  IN IF cs.conns[h].suppress THEN fired
     ELSE AppEmit(fired, "remoteStreamAdded", cs.peers[cs.conns[h].peer].id)

\* onaddstream fires once for each of the n streams that are new to handle h
RECURSIVE OnAddStreams(_, _, _)
OnAddStreams(cs, h, n) == IF n <= 0 THEN cs ELSE OnAddStreams(OnAddStream(cs, h), h, n - 1)

\* setRemoteDescription is valid for an offer in stable or have-remote-offer and
\* for an answer in have-local-offer; each stream the description brings that
\* the handle did not hold fires onaddstream (a stream it no longer brings
\* would fire onremovestream, which is not bound); then the success callback
\* of createAnswer or handleAnswer runs
OnRemoteDescriptionSet(cs0, k) ==
  LET t == cs0.tasks[k]
      ok == \/ t.type = "offer" /\ cs0.conns[t.h].sig \in {"stable", "have-remote-offer"}
            \/ t.type = "answer" /\ cs0.conns[t.h].sig = "have-local-offer"
      cs == Done(cs0, k)
      id == cs.peers[t.e].id
      set == [cs EXCEPT !.conns[t.h].sig = IF t.type = "offer" THEN "have-remote-offer" ELSE "stable",
                        !.conns[t.h].remote = t.stream,
                        !.offered = IF t.type = "answer" THEN @ \ {id} ELSE @]
      added == OnAddStreams(set, t.h, t.stream - cs.conns[t.h].remote)
  IN IF ~ok THEN LogError(cs)
     ELSE IF t.type = "offer"
          THEN Pending(added, "createAnswer", t.e, added.peers[t.e].connection, "answer", 0, 0)
          ELSE SocketEmit(PeerConnected(added, id), "peerconnected", id, 0)

\* mutant: the answer is sent whether or not createAnswer succeeded
OnAnswerCreated_sendsAnyway(cs0, k) ==
  LET t == cs0.tasks[k]
      ok == cs0.conns[t.h].sig = "have-remote-offer"
      cs == Done(cs0, k)
      id == cs.peers[t.e].id
      sent == SocketEmit(cs, "answer", id, cs.conns[t.h].local)
  IN IF ok THEN Pending(sent, "setLocal", t.e, sent.peers[t.e].connection, "answer", t.h, 0)
     ELSE LogError(sent)

\* the callbacks of createAnswer (createAnswer), valid in have-remote-offer: on
\* success the answer is sent and setLocalDescription is invoked
OnAnswerCreated(cs0, k) ==
  LET t == cs0.tasks[k]
      ok == cs0.conns[t.h].sig = "have-remote-offer"
      cs == Done(cs0, k)
      id == cs.peers[t.e].id
      sent == SocketEmit(cs, "answer", id, cs.conns[t.h].local)
  IN IF ok THEN Pending(sent, "setLocal", t.e, sent.peers[t.e].connection, "answer", t.h, 0)
     ELSE LogError(cs)

\* mutant: the candidate event also sends the offer again
OnIceCandidateOf_resend(cs0, h) ==
  LET cs == Enter(cs0)
      id == cs.peers[cs.conns[h].peer].id
  IN SocketEmit(SocketEmit([cs EXCEPT !.conns[h].cand = "fired"], "icecandidate", id, 0),
                "offer", id, cs.conns[h].local)

\* onicecandidate of handle h: the candidate goes to the handle's peer
OnIceCandidateOf(cs0, h) ==
  LET cs == Enter(cs0)
  IN SocketEmit([cs EXCEPT !.conns[h].cand = "fired"], "icecandidate", cs.peers[cs.conns[h].peer].id, 0)

Resolved(c, op, k, cs) ==
  /\ Ran(c, op, spc[c].peers[spc[c].tasks[k].e].id, cs)
  /\ UNCHANGED <<nrecv, ncalls>>

OfferCreated(c) ==
  \E k \in Runnable(spc[c], "createOffer") :
    Resolved(c, "offerCreated", k, OnOfferCreated(spc[c], k))

LocalDescriptionSet(c) ==
  \E k \in Runnable(spc[c], "setLocal") :
    Resolved(c, "localDescriptionSet", k, OnLocalDescriptionSet(spc[c], k))

RemoteDescriptionSet(c) ==
  \E k \in Runnable(spc[c], "setRemote") :
    Resolved(c, "remoteDescriptionSet", k, OnRemoteDescriptionSet(spc[c], k))

AnswerCreated(c) ==
  \E k \in Runnable(spc[c], "createAnswer") :
    Resolved(c, "answerCreated", k, OnAnswerCreated(spc[c], k))

\* a handle with a local description fires onicecandidate
OnIceCandidate(c) ==
  \E h \in 1..Len(spc[c].conns) :
    /\ spc[c].conns[h].cand = "ready"
    /\ Ran(c, "onicecandidate", spc[c].peers[spc[c].conns[h].peer].id, OnIceCandidateOf(spc[c], h))
    /\ UNCHANGED <<nrecv, ncalls>>

ClientNext ==
  \/ RecvInitialized(Me)
  \/ RecvList(Me)
  \/ RecvNewconnection(Me)
  \/ RecvOffer(Me)
  \/ RecvAnswer(Me)
  \/ RecvIcecandidate(Me)
  \/ RecvPeerconnected(Me)
  \/ RecvStreamremoved(Me)
  \/ RecvDisconnect(Me)
  \/ CallAddLocalStream(Me)
  \/ CallRemoveLocalStream(Me)
  \/ OfferCreated(Me)
  \/ LocalDescriptionSet(Me)
  \/ RemoteDescriptionSet(Me)
  \/ AnswerCreated(Me)
  \/ OnIceCandidate(Me)

ClientSpec == Init /\ [][ClientNext]_vars

\* ----------------------------------------------------------------- session
\* the relay and two clients, A and B, each running the client code. The
\* application of each adds its local stream at any time and removes it when
\* nothing is in flight; the channels stay open. The candidate events of the transport, which take no
\* part in the offer/answer exchange, are left to ClientSpec.
A == Me
B == Me + 1
Pair == {A, B}

\* what a client emitted on its socket, as the messages its channel carries
Wire(c, sent) ==
  [k \in 1..Len(sent) |->
     Msg(c, sent[k].kind, sent[k].target,
         IF sent[k].kind \in TargetedKinds THEN sent[k].stream ELSE NoPayload, NoId, 0, TRUE)]

\* bindEvents: the handler bound to each relay message
Dispatch(cs, m) ==
  CASE m.kind = "initialized" -> GetPeerList(cs)
    [] m.kind = "list" -> GenerateConnections(cs, m.list)
    [] m.kind = "newconnection" -> AddPeer(cs, m.id, FALSE)
    [] m.kind = "offer" -> CreateAnswer(cs, [sender |-> m.id, stream |-> m.payload])
    [] m.kind = "answer" -> HandleAnswer(cs, [sender |-> m.id, stream |-> m.payload])
    [] m.kind = "icecandidate" -> ReceiveIceCandidate(cs, [sender |-> m.id, depth |-> CandidateDepth])
    [] m.kind = "peerconnected" -> FarSideConnected(cs, m.id)
    [] m.kind = "streamremoved" -> RemoveRemoteStream(cs, m.id)
    [] m.kind = "disconnect" -> DisconnectConnection(cs, m.id)

\* client c holds a local stream and a remote stream on the handle of some peer
HoldsBoth(c) ==
  /\ spc[c].localStream
  /\ \E k \in 1..Len(spc[c].peerConnections) :
       spc[c].conns[spc[c].peers[spc[c].peerConnections[k]].connection].remote # 0

\* how many remoteStreamRemoved notifications the events hold
StreamRemovals(events) ==
  Len(SelectSeq(events, LAMBDA ev : ev.name = "remoteStreamRemoved"))

\* a handler of client c ran: what it emitted on its socket is on its channel
Stepped(c, op, id, cs) ==
  /\ spc' = [spc EXCEPT ![c] = cs]
  /\ did' = [op |-> op, id |-> id, had |-> HasPeer(spc[c], id), depth |-> 0]
  /\ tally' = IF op \in {"addLocalStream", "removeLocalStream"}
              THEN [armed |-> op = "removeLocalStream" /\ HoldsBoth(c), n |-> StreamRemovals(cs.events)]
              ELSE [tally EXCEPT !.n = @ + StreamRemovals(cs.events)]
  /\ toRelay' = [toRelay EXCEPT ![c] = @ \o Wire(c, cs.sent)]
  /\ UNCHANGED <<clients, status, out, last, inbox, announced, departed, joinedAt, nsent, nrecv>>

Join(i) == OnConnection(i)

\* nothing is in flight and no transport callback is pending
Settled ==
  \A c \in Pair : toRelay[c] = <<>> /\ toClient[c] = <<>> /\ spc[c].tasks = <<>>

Deliver(c) ==
  /\ toClient[c] # <<>>
  /\ LET m == Head(toClient[c]) IN Stepped(c, m.kind, m.id, Dispatch(Enter(spc[c]), m))
  /\ toClient' = [toClient EXCEPT ![c] = Tail(@)]
  /\ UNCHANGED ncalls

AppAddLocalStream(c) ==
  /\ ncalls < MaxCalls + 1
  /\ ~spc[c].localStream
  /\ ncalls' = ncalls + 1
  /\ Stepped(c, "addLocalStream", NoId, AddLocalStream(Enter(spc[c])))
  /\ UNCHANGED toClient

AppRemoveLocalStream(c) ==
  /\ ncalls < MaxCalls + 1
  /\ Settled
  /\ spc[c].localStream
  /\ ncalls' = ncalls + 1
  /\ Stepped(c, "removeLocalStream", NoId, RemoveLocalStream(Enter(spc[c])))
  /\ UNCHANGED toClient

Completed(c, op, k, cs) ==
  /\ Stepped(c, op, spc[c].peers[spc[c].tasks[k].e].id, cs)
  /\ UNCHANGED <<toClient, ncalls>>

OfferReady(c) ==
  \E k \in Runnable(spc[c], "createOffer") :
    Completed(c, "offerCreated", k, OnOfferCreated(spc[c], k))

LocalSet(c) ==
  \E k \in Runnable(spc[c], "setLocal") :
    Completed(c, "localDescriptionSet", k, OnLocalDescriptionSet(spc[c], k))

RemoteSet(c) ==
  \E k \in Runnable(spc[c], "setRemote") :
    Completed(c, "remoteDescriptionSet", k, OnRemoteDescriptionSet(spc[c], k))

AnswerReady(c) ==
  \E k \in Runnable(spc[c], "createAnswer") :
    Completed(c, "answerCreated", k, OnAnswerCreated(spc[c], k))

\* the steps that are taken if they stay possible: the relay handles what it
\* was sent, a client handles what it was emitted, a transport callback fires
Relays(i) ==
  \/ OnList(i)
  \/ OnOffer(i)
  \/ OnAnswer(i)
  \/ OnPeerconnected(i)
  \/ OnStreamremoved(i)

Transport(c) ==
  \/ OfferReady(c)
  \/ LocalSet(c)
  \/ RemoteSet(c)
  \/ AnswerReady(c)

SessionNext ==
  \E c \in Pair :
    \/ Join(c)
    \/ OnList(c)
    \/ OnOffer(c)
    \/ OnAnswer(c)
    \/ OnPeerconnected(c)
    \/ OnStreamremoved(c)
    \/ Deliver(c)
    \/ AppAddLocalStream(c)
    \/ AppRemoveLocalStream(c)
    \/ OfferReady(c)
    \/ LocalSet(c)
    \/ RemoteSet(c)
    \/ AnswerReady(c)

SessionSpec == Init /\ [][SessionNext]_vars

FairSessionSpec ==
  /\ SessionSpec
  /\ \A c \in Pair : WF_vars(Relays(c)) /\ WF_vars(Deliver(c)) /\ WF_vars(Transport(c))

\* ---------------------------------------------------------------- leaving
\* the session in which a client's channel may close: the relay tells the
\* others, and the client that left does nothing more
Leave(c) == OnDisconnect(c)

Present(c) == status[c] # "closed"

\* a handle of client c with a local description fires onicecandidate, here
\* once the exchange of descriptions has come to rest
CandidateReady(c) ==
  \E h \in 1..Len(spc[c].conns) :
    /\ Settled
    /\ spc[c].conns[h].cand = "ready"
    /\ Stepped(c, "onicecandidate", spc[c].peers[spc[c].conns[h].peer].id, OnIceCandidateOf(spc[c], h))
    /\ UNCHANGED <<toClient, ncalls>>

LeaveNext ==
  \E c \in Pair :
    \/ Leave(c)
    \/ Present(c) /\ Join(c)
    \/ Present(c) /\ OnList(c)
    \/ Present(c) /\ OnOffer(c)
    \/ Present(c) /\ OnAnswer(c)
    \/ Present(c) /\ OnPeerconnected(c)
    \/ Present(c) /\ OnStreamremoved(c)
    \/ Present(c) /\ Deliver(c)
    \/ Present(c) /\ AppAddLocalStream(c)
    \/ Present(c) /\ AppRemoveLocalStream(c)
    \/ Present(c) /\ OfferReady(c)
    \/ Present(c) /\ LocalSet(c)
    \/ Present(c) /\ RemoteSet(c)
    \/ Present(c) /\ AnswerReady(c)
    \/ Present(c) /\ OnIcecandidate(c)
    \/ Present(c) /\ CandidateReady(c)

LeaveSpec == Init /\ [][LeaveNext]_vars

\* ------------------------------------------------------------------ claims
Members == {i \in Ids : status[i] = "open"}

\* the members other than x, in the order their channels connected
OthersInJoinOrder(x) ==
  LET others == Members \ {x}
      k == Cardinality(others)
  IN CHOOSE s \in [1..k -> others] :
       /\ \A a, b \in 1..k : a < b => joinedAt[s[a]] < joinedAt[s[b]]

\* C1: a routed message whose target is a current member yields exactly one
\* emit, of the same kind, to the target's channel, carrying the id of the
\* channel it arrived on (not the payload's `sender` field) and the payload
\* unchanged; nothing else is emitted.
C1_RoutedDelivery ==
  (last.op \in RoutedKinds /\ last.msg.target \in Members) =>
    out = <<Emit(last.msg.target, last.msg.kind, last.id,
                 IF last.op \in TargetedKinds THEN last.msg.payload ELSE NoPayload,
                 <<>>, last.msg.n, clients)>>

C1_Witness ==
  /\ last.op = "offer"
  /\ last.msg.target \in Members \ {last.id}
  /\ last.msg.sender \in Members \ {last.id}
  /\ Len(out) = 1 /\ out[1].id = last.id /\ out[1].payload = last.msg.payload

\* C2: a routed message whose target is not a current member is dropped: no
\* emit to any channel (so no error reply either), registry and channels as
\* they were, and the sender's next message is at the head of its queue.
C2_Miss ==
  (/\ last'.op \in RoutedKinds
   /\ toRelay[last'.id] # <<>> /\ last'.msg = Head(toRelay[last'.id])
   /\ last'.msg.target \notin Members) =>
    /\ out' = <<>>
    /\ inbox' = inbox
    /\ clients' = clients
    /\ status' = status
    /\ toRelay' = [toRelay EXCEPT ![last'.id] = Tail(@)]

C2_RoutingMiss == [][C2_Miss]_vars

C2_Witness ==
  /\ last.op \in RoutedKinds
  /\ last.msg.target \notin Members
  /\ Len(clients) >= 2
  /\ out = <<>>
  /\ toRelay[last.id] # <<>>

\* C3: the reply to `list` from member x is the current membership minus x, in
\* join order, without duplicates (empty for a sole member), and goes to x only.
C3_ListReply ==
  last.op = "list" =>
    out = <<Emit(last.id, "list", NoId, NoPayload, OthersInJoinOrder(last.id), last.msg.n, clients)>>

C3_Witness ==
  /\ last.op = "list"
  /\ Len(out) = 1 /\ Len(out[1].list) = 2
  /\ out[1].list[1] > out[1].list[2]

\* C4: on a join the relay registers the channel, then emits `initialized` to
\* it once, then `newconnection(id)` once to every other member and never to
\* the joiner; no other handler emits `initialized` or `newconnection`.
C4_Join ==
  /\ last.op = "connection" =>
       /\ Len(out) = Cardinality(Members)
       /\ out[1].to = last.id /\ out[1].kind = "initialized"
       /\ last.id \in Range(out[1].reg)
       /\ \A k \in 2..Len(out) :
            /\ out[k].kind = "newconnection" /\ out[k].id = last.id
            /\ out[k].to \in Members \ {last.id}
       /\ \A r \in Members \ {last.id} : Cardinality({k \in 1..Len(out) : out[k].to = r}) = 1
  /\ last.op # "connection" =>
       \A k \in 1..Len(out) : out[k].kind \notin {"initialized", "newconnection"}

C4_Witness ==
  /\ last.op = "connection"
  /\ Len(out) = 3

\* C5 as claimed: on every member's channel, a relayed message with sender P
\* comes after newconnection(P) or a list reply naming P, and never after
\* disconnect(P). Stated for the messages P sent to a member the relay had
\* named to P, as the clients of this repository do.
C5_AnnouncedBeforeRouted ==
  \A k \in 1..Len(out) :
    (out[k].kind \in RoutedKinds /\ out[k].to # out[k].id /\ last.msg.known) =>
      /\ out[k].id \in announced[out[k].to]
      /\ out[k].id \notin departed[out[k].to]

\* C5 as amended: on the channel of a member that was in the room when P
\* joined, newconnection(P) comes before any relayed message with sender P; on
\* no channel does a relayed message with sender P come after disconnect(P).
\* (A member that joined after P gets P only in the reply to a `list` it
\* requests, and a message from P can be relayed to it before that.)
C5_NewconnectionBeforeRouted ==
  \A k \in 1..Len(out) :
    (out[k].kind \in RoutedKinds /\ out[k].to # out[k].id) =>
      /\ joinedAt[out[k].to] < joinedAt[out[k].id] => out[k].id \in announced[out[k].to]
      /\ out[k].id \notin departed[out[k].to]

C5_Witness ==
  /\ Len(out) = 1 /\ out[1].kind \in RoutedKinds
  /\ 0 < joinedAt[out[1].to] /\ joinedAt[out[1].to] < joinedAt[out[1].id]
  /\ out[1].id \in announced[out[1].to]

\* C6: a channel close removes exactly that id from the registry, the other
\* members keeping their order, and emits disconnect(id) once to every
\* remaining member and to nobody else; from then on the id resolves to no
\* socket, is in no list reply and receives nothing.
C6_Close ==
  last'.op = "disconnect" =>
    /\ clients' = SelectSeq(clients, LAMBDA c : c # last'.id)
    /\ Len(out') = Len(clients) - 1
    /\ \A k \in 1..Len(out') : out'[k].kind = "disconnect" /\ out'[k].id = last'.id
    /\ \A r \in Members \ {last'.id} : Cardinality({k \in 1..Len(out') : out'[k].to = r}) = 1

C6_Gone ==
  \A i \in Ids : status[i] = "closed" =>
    /\ i \notin Range(clients)
    /\ FindSocket(clients, i) = 0
    /\ \A k \in 1..Len(out) : out[k].to # i /\ i \notin Range(out[k].list)

C6_Disconnect == [][C6_Close]_vars /\ []C6_Gone

C6_Witness ==
  /\ last.op = "disconnect"
  /\ Len(out) = 2
  /\ clients[1] > clients[2]

\* C7: handling list, offer, answer, icecandidate, peerconnected or
\* streamremoved leaves the relay's state (the registry) as it was; only a
\* join or a channel close changes it.
C7_Frame ==
  /\ last'.op \in RoutedKinds \cup {"list", "send"} => clients' = clients
  /\ clients' # clients => last'.op \in {"connection", "disconnect"}

C7_PureRouter == [][C7_Frame]_vars

C7_Witness ==
  /\ last.op \in RoutedKinds
  /\ last.msg.n = MaxSends
  /\ Len(out) = 1
  /\ Len(clients) = 2

\* the send numbers of the messages relayed to r with sender s, in emission order
Relayed(s, r) ==
  LET from_s == SelectSeq(inbox[r], LAMBDA e : e.id = s)
  IN [k \in 1..Len(from_s) |-> from_s[k].n]

\* C8: for every pair (S, R) the messages of S relayed to R are in S's send
\* order without duplicates, and a message of S targeted at R that is handled
\* while both are members is relayed, after everything relayed to R before.
C8_PairOrder ==
  /\ \A s, r \in Ids : \A a, b \in 1..Len(Relayed(s, r)) :
       a < b => Relayed(s, r)[a] < Relayed(s, r)[b]
  /\ (last.op \in RoutedKinds /\ last.msg.target \in Members) =>
       LET box == inbox[last.msg.target] IN
       /\ box # <<>>
       /\ box[Len(box)].n = last.msg.n /\ box[Len(box)].id = last.id

C8_Witness ==
  \E s, r \in Ids :
    /\ s # r
    /\ Len(Relayed(s, r)) = 2
    /\ inbox[r][1].kind # inbox[r][2].kind

\* the ids of the peers in the client's table, in table order
TableIds(cs) == [k \in 1..Len(cs.peerConnections) |-> cs.peers[cs.peerConnections[k]].id]

\* C9: a client's peer table holds at most one entry per remote id.
C9_OneEntryPerId ==
  \A c \in Ids : \A a, b \in 1..Len(TableIds(spc[c])) :
    a # b => TableIds(spc[c])[a] # TableIds(spc[c])[b]

C9_Witness ==
  /\ did.op \in {"newconnection", "list", "offer", "answer", "icecandidate", "streamremoved"}
  /\ did.had
  /\ Len(TableIds(spc[Me])) = 2

\* the answers whose setRemoteDescription succeeded in this step
AnswersApplied(c) ==
  {t \in Range(spc[c].tasks) :
     /\ t.t = "setRemote" /\ t.type = "answer"
     /\ did'.op = "remoteDescriptionSet" /\ spc'[c].errors = 0
     /\ \E k \in Runnable(spc[c], "setRemote") :
          spc[c].tasks[k] = t /\ spc'[c].tasks = Splice(spc[c].tasks, k)}

\* C10: an answer from P is applied as remote description only if an offer
\* sent to P is outstanding; an answer received while none is (P unknown
\* included) is a no-op: no entry is created, nothing is sent to the relay,
\* nothing is emitted to the application.
C10_Applied ==
  \A t \in AnswersApplied(Me) : spc[Me].peers[t.e].id \in spc[Me].offered

C10_Received ==
  (did'.op = "answer" /\ nrecv' = nrecv + 1 /\ did'.id \notin spc[Me].offered) =>
    /\ TableIds(spc'[Me]) = TableIds(spc[Me])
    /\ spc'[Me].sent = <<>>
    /\ spc'[Me].events = <<>>

C10_AnswerNeedsOffer == [][C10_Applied /\ C10_Received]_vars

\* the client emitted peerconnected(id) to its application in its last step
EmittedPeerConnected(c, id) ==
  [name |-> "peerconnected", id |-> id] \in Range(spc[c].events)

\* client c holds a local stream and starts offering it to the peer `id` of its table
Offering(c, id) ==
  /\ spc[c].localStream
  /\ \E k \in 1..Len(spc[c].tasks) :
       /\ spc[c].tasks[k].t = "createOffer"
       /\ spc[c].peers[spc[c].tasks[k].e].id = id
       /\ spc[c].tasks[k].e \in Range(spc[c].peerConnections)

\* C11 as claimed: whenever A holds a local stream and starts offering it to
\* B, A eventually emits peerconnected for B and B emits peerconnected for A.
C11_OfferLeadsToConnected ==
  /\ Offering(A, B) ~> EmittedPeerConnected(A, B)
  /\ Offering(A, B) ~> EmittedPeerConnected(B, A)

\* the negotiation A started is disturbed: B holds a local stream of its own
\* (its offer can cross A's), or A gave its stream up
C11_Disturbed == spc[B].localStream \/ ~spc[A].localStream

\* C11 as amended: whenever A holds a local stream and starts offering it to
\* B, then, unless B comes to hold a local stream of its own or A removes
\* its stream, A eventually emits peerconnected for B and B for A.
C11_Scenario3 ==
  /\ Offering(A, B) ~> (EmittedPeerConnected(A, B) \/ C11_Disturbed)
  /\ Offering(A, B) ~> (EmittedPeerConnected(B, A) \/ C11_Disturbed)

C11_Witness ==
  /\ EmittedPeerConnected(B, A)
  /\ did.op = "peerconnected"
  /\ ~C11_Disturbed
  /\ spc[A].conns[spc[A].peers[FoundPeer(spc[A], B)].connection].sig = "stable"
  /\ spc[B].conns[spc[B].peers[FoundPeer(spc[B], A)].connection].sig = "stable"

\* the table entry of client state cs for the peer `id`: the peer object and its handle
Entry(cs, id) ==
  [peer |-> cs.peers[FoundPeer(cs, id)], handle |-> cs.conns[cs.peers[FoundPeer(cs, id)].connection]]

\* C12: handling disconnect(P) for a peer P of the table closes P's handle,
\* emits peerDisconnected(P) once and remoteStreamRemoved(P) once (and nothing
\* else), and removes P's entry; the other entries stay, in order and unchanged.
C12_Step ==
  (did'.op = "disconnect" /\ did'.had) =>
    LET P == did'.id
        h == spc[Me].peers[FoundPeer(spc[Me], P)].connection
    IN /\ spc[Me].conns[h].sig # "closed"
       /\ spc'[Me].conns[h].sig = "closed"
       /\ spc'[Me].events = <<[name |-> "peerDisconnected", id |-> P],
                              [name |-> "remoteStreamRemoved", id |-> P]>>
       /\ TableIds(spc'[Me]) = SelectSeq(TableIds(spc[Me]), LAMBDA x : x # P)
       /\ \A x \in Range(TableIds(spc'[Me])) : Entry(spc'[Me], x) = Entry(spc[Me], x)
       /\ spc'[Me].sent = <<>>

C12_DisconnectRemovesEntry == [][C12_Step]_vars

C12_Witness ==
  /\ did.op = "disconnect" /\ did.had
  /\ Len(TableIds(spc[Me])) = 1
  /\ Len(spc[Me].peers) = 2
  /\ Len(spc[Me].events) = 2

\* C13: after a client removed its local stream while it held a remote
\* stream of its peer, the removal and the renegotiation it sets off yield
\* one remoteStreamRemoved notification in all, on both sides together: never
\* two, and one once everything is delivered and every callback has run.
C13_Count ==
  tally.armed => (tally.n <= 1 /\ (Settled => tally.n = 1))

C13_OneStreamRemoved == []C13_Count /\ (tally.armed ~> tally.n = 1)

C13_Witness ==
  /\ tally.armed /\ tally.n = 1
  /\ Settled
  /\ \E c \in Pair : ~spc[c].localStream /\ Len(spc[c].conns) = 2
                     /\ spc[c].conns[2].suppress /\ spc[c].conns[2].remote # 0

\* the negotiations started for peer object e and not yet past their first
\* transport operation: createOffer invoked, or setRemoteDescription invoked
\* with an incoming offer
Starts(cs, e) ==
  Cardinality({k \in 1..Len(cs.tasks) :
     /\ cs.tasks[k].e = e
     /\ \/ cs.tasks[k].t = "createOffer"
        \/ cs.tasks[k].t = "setRemote" /\ cs.tasks[k].type = "offer"})

\* a negotiation of peer object e is pending: one of its operations has not
\* called back, or its handle holds an offer that no answer has completed
Negotiating(cs, e) ==
  /\ e <= Len(cs.peers)
  /\ \/ \E k \in 1..Len(cs.tasks) :
          cs.tasks[k].e = e /\ ~(cs.tasks[k].t = "setRemote" /\ cs.tasks[k].type = "answer")
     \/ cs.conns[cs.peers[e].connection].sig \in {"have-local-offer", "have-remote-offer"}

\* C14: for one entry, a negotiation (an offer being created, an incoming
\* offer being answered) starts only when no earlier negotiation of that entry
\* is pending.
C14_Step ==
  \A e \in 1..Len(spc'[Me].peers) :
    Starts(spc'[Me], e) > Starts(spc[Me], e) => ~Negotiating(spc[Me], e)

C14_NegotiationsSerialized == [][C14_Step]_vars

\* handle h is the first handle of its peer object (not a replacement)
InitialHandle(cs, h) == \A g \in 1..(h - 1) : cs.conns[g].peer # cs.conns[h].peer

\* the step applied a remote description bringing a stream to handle h, which had none
StreamArrived(h) ==
  /\ did'.op = "remoteDescriptionSet"
  /\ spc'[Me].errors = 0
  /\ \E k \in Runnable(spc[Me], "setRemote") :
       /\ spc[Me].tasks[k].h = h /\ spc[Me].tasks[k].stream > spc[Me].conns[h].remote
       /\ spc'[Me] = OnRemoteDescriptionSet(spc[Me], k)

\* C15: remoteStreamAdded is withheld only on a replacement handle; a remote
\* stream arriving on the initial handle of an entry, however the entry was
\* created, is announced with remoteStreamAdded.
C15_Step ==
  \A h \in 1..Len(spc[Me].conns) :
    (StreamArrived(h) /\ InitialHandle(spc[Me], h)) =>
      [name |-> "remoteStreamAdded", id |-> spc[Me].peers[spc[Me].conns[h].peer].id]
        \in Range(spc'[Me].events)

C15_Flags ==
  \A h \in 1..Len(spc[Me].conns) : spc[Me].conns[h].suppress => ~InitialHandle(spc[Me], h)

C15_InitialHandleAnnounces == [][C15_Step]_vars /\ []C15_Flags

\* the remoteStreamAdded notifications for `id` among the events
StreamsAnnounced(events, id) ==
  Len(SelectSeq(events, LAMBDA ev : ev = [name |-> "remoteStreamAdded", id |-> id]))

\* C16: on a replacement handle bound with suppression, the first
\* remote-stream-added signal is swallowed and every later one is forwarded
\* as remoteStreamAdded.
C16_Step ==
  \A h \in 1..Len(spc[Me].conns) :
    (StreamArrived(h) /\ spc[Me].conns[h].suppress /\ ~InitialHandle(spc[Me], h)) =>
      \E k \in Runnable(spc[Me], "setRemote") :
        /\ spc[Me].tasks[k].h = h
        /\ spc'[Me] = OnRemoteDescriptionSet(spc[Me], k)
        /\ StreamsAnnounced(spc'[Me].events, spc[Me].peers[spc[Me].conns[h].peer].id)
             = (spc[Me].tasks[k].stream - spc[Me].conns[h].remote)
               - (IF spc[Me].conns[h].heard THEN 0 ELSE 1)

C16_SuppressionOneShot == [][C16_Step]_vars

\* the step ran the callbacks of a setRemoteDescription(answer) of peer `id`
AnswerCallback(id) ==
  /\ did'.op = "remoteDescriptionSet" /\ did'.id = id
  /\ \E k \in Runnable(spc[Me], "setRemote") :
       /\ spc[Me].tasks[k].type = "answer"
       /\ spc'[Me] = OnRemoteDescriptionSet(spc[Me], k)

\* C17: on the offering side the application is told peerconnected(P) only
\* once the answer of P was applied and a peerconnected message of P was
\* received; applying an answer that fails tells it nothing.
C17_Step ==
  \A id \in PeerIds :
    AnswerCallback(id) =>
      /\ spc'[Me].errors # 0 => spc'[Me].events = <<>>
      /\ EmittedPeerConnected(Me, id)' => id \in spc[Me].farSide

C17_ConnectedAfterFarSide == [][C17_Step]_vars

\* C18: a candidate nested as the clients send it is added to the sender's
\* current handle, the sender's entry being created first if the table has
\* none; any other candidate payload is ignored: nothing is added, created,
\* sent or raised.
C18_Step ==
  (did'.op = "icecandidate") =>
    LET P == did'.id IN
    IF did'.depth = CandidateDepth
    THEN /\ HasPeer(spc'[Me], P)
         /\ Entry(spc'[Me], P).handle.ice
         /\ TableIds(spc'[Me]) = IF did'.had THEN TableIds(spc[Me]) ELSE Append(TableIds(spc[Me]), P)
         /\ did'.had => /\ Entry(spc'[Me], P) = [Entry(spc[Me], P) EXCEPT !.handle.ice = TRUE]
                        /\ spc'[Me].sent = <<>>
         /\ \A x \in Range(TableIds(spc[Me])) \ {P} : Entry(spc'[Me], x) = Entry(spc[Me], x)
         /\ ~spc'[Me].threw /\ spc'[Me].errors = 0
    ELSE spc'[Me] = Enter(spc[Me])

C18_IceCandidate == [][C18_Step]_vars

C18_Witness ==
  /\ did.op = "icecandidate" /\ did.depth = CandidateDepth /\ ~did.had
  /\ Len(TableIds(spc[Me])) = 2
  /\ Entry(spc[Me], did.id).handle.ice

C18_WitnessIgnored ==
  /\ did.op = "icecandidate" /\ did.depth = CandidateDepth - 1 /\ ~did.had
  /\ Len(TableIds(spc[Me])) = 1

\* the handlers of the relayed messages that name a sender, and the transport
\* callbacks of a peer's negotiation
PeerSteps ==
  {"offer", "answer", "icecandidate", "peerconnected", "streamremoved", "disconnect",
   "offerCreated", "localDescriptionSet", "remoteDescriptionSet", "answerCreated"}

\* C19: handling a relayed message of sender P, or a transport callback of P
\* (failed or not), leaves the entries of the other peers where they were in
\* the table, leaves every handle of another peer (suppress flag included)
\* as it was, and sends nothing to a peer other than P.
C19_Step ==
  did'.op \in PeerSteps =>
    LET P == did'.id IN
    /\ SelectSeq(TableIds(spc'[Me]), LAMBDA x : x # P) = SelectSeq(TableIds(spc[Me]), LAMBDA x : x # P)
    /\ \A x \in Range(TableIds(spc[Me])) \ {P} : Entry(spc'[Me], x) = Entry(spc[Me], x)
    /\ \A h \in 1..Len(spc[Me].conns) :
         spc[Me].peers[spc[Me].conns[h].peer].id # P => spc'[Me].conns[h] = spc[Me].conns[h]
    /\ \A k \in 1..Len(spc'[Me].sent) : spc'[Me].sent[k].target = P

C19_FailureIsolation == [][C19_Step]_vars

C19_Witness ==
  /\ did.op = "remoteDescriptionSet"
  /\ spc[Me].errors = 1
  /\ Len(TableIds(spc[Me])) = 2
  /\ \E x \in Range(TableIds(spc[Me])) \ {did.id} : Entry(spc[Me], x).handle.sig = "have-local-offer"

\* the client sent P an offer that is its handle's local description, no
\* answer has been applied, and no transport callback of P is pending
Stalled(cs, P) ==
  /\ HasPeer(cs, P)
  /\ P \in cs.offered
  /\ Entry(cs, P).handle.sig = "have-local-offer"
  /\ \A k \in 1..Len(cs.tasks) : cs.peers[cs.tasks[k].e].id # P

\* the step is one of the triggers the claim names, or the answer arrives
Trigger(P) ==
  \/ did'.op \in {"addLocalStream", "removeLocalStream"}
  \/ did'.op \in {"streamremoved", "offer", "disconnect", "answer"} /\ did'.id = P

\* the messages of the last step addressed to P, except those of `kinds`
SentTo(cs, P, kinds) ==
  SelectSeq(cs.sent, LAMBDA m : m.target = P /\ m.kind \notin kinds)

\* C20 as claimed: while the answer to an offer sent to P does not arrive and
\* no trigger occurs, P's entry stays as it is, with its handle holding the
\* offer, and no message at all is sent to P.
C20_StepNoMessage ==
  \A P \in PeerIds :
    (Stalled(spc[Me], P) /\ ~Trigger(P)) =>
      /\ Stalled(spc'[Me], P)
      /\ Entry(spc'[Me], P).peer = Entry(spc[Me], P).peer
      /\ SentTo(spc'[Me], P, {}) = <<>>

C20_NoMessageWhileStalled == [][C20_StepNoMessage]_vars

\* C20 as amended: while the answer to an offer sent to P does not arrive and
\* no trigger occurs, P's entry stays as it is, with its handle holding the
\* offer; the offer is not sent again and nothing else is sent to P, except
\* the ICE candidates the transport raises for that offer.
C20_Step ==
  \A P \in PeerIds :
    (Stalled(spc[Me], P) /\ ~Trigger(P)) =>
      /\ Stalled(spc'[Me], P)
      /\ Entry(spc'[Me], P).peer = Entry(spc[Me], P).peer
      /\ SentTo(spc'[Me], P, {"icecandidate"}) = <<>>

C20_NoRetry == [][C20_Step]_vars

C20_Witness ==
  \E P \in PeerIds :
    /\ Stalled(spc[Me], P)
    /\ did.op = "onicecandidate" /\ did.id = P
    /\ Len(spc[Me].sent) = 1
    /\ Entry(spc[Me], P).handle.cand = "fired"

\* the offers to P among the messages of the last step
OffersSent(cs, P) == Len(SelectSeq(cs.sent, LAMBDA m : m.kind = "offer" /\ m.target = P))

\* the createOffer operations of peer object e that have not called back
OffersInCreation(cs, e) ==
  Cardinality({k \in 1..Len(cs.tasks) : cs.tasks[k].t = "createOffer" /\ cs.tasks[k].e = e})

\* the triggers of an offer to peer object e in the step: each handle made for
\* e (its first one, or a replacement) while a local stream exists, and a local
\* stream added while e is in the table
OfferTriggers(e) ==
  (IF spc'[Me].localStream
   THEN Cardinality({h \in (Len(spc[Me].conns) + 1)..Len(spc'[Me].conns) : spc'[Me].conns[h].peer = e})
   ELSE 0)
  + (IF did'.op = "addLocalStream" /\ e \in Range(spc[Me].peerConnections) THEN 1 ELSE 0)

\* C21: the creation of an offer is started once for each trigger (entry
\* created, local stream added, handle replaced, each while a local stream
\* exists) and by nothing else; an offer to P is sent only by the callback of
\* such a creation, once, and not at all if the creation failed; an entry made
\* on newconnection while there is no local stream has a fresh handle, starts
\* nothing and sends nothing.
C21_Step ==
  /\ IF did'.op = "offerCreated"
     THEN /\ \E e \in 1..Len(spc[Me].peers) :
               /\ spc[Me].peers[e].id = did'.id
               /\ \A x \in 1..Len(spc[Me].peers) :
                    OffersInCreation(spc'[Me], x)
                      = OffersInCreation(spc[Me], x) - (IF x = e THEN 1 ELSE 0)
          /\ \A P \in PeerIds :
               OffersSent(spc'[Me], P) = (IF P = did'.id /\ spc'[Me].errors = 0 THEN 1 ELSE 0)
     ELSE /\ \A e \in 1..Len(spc'[Me].peers) :
               OffersInCreation(spc'[Me], e)
                 = (IF e <= Len(spc[Me].peers) THEN OffersInCreation(spc[Me], e) ELSE 0)
                   + OfferTriggers(e)
          /\ \A P \in PeerIds : OffersSent(spc'[Me], P) = 0
  /\ (did'.op = "newconnection" /\ ~did'.had /\ ~spc[Me].localStream) =>
       LET e == FoundPeer(spc'[Me], did'.id)
       IN /\ e = Len(spc[Me].peers) + 1
          /\ Entry(spc'[Me], did'.id).handle = Connection(e, FALSE)
          /\ spc'[Me].tasks = spc[Me].tasks
          /\ spc'[Me].sent = <<>>

C21_WitnessCreated ==
  /\ did.op = "newconnection" /\ ~did.had
  /\ ~spc[Me].localStream
  /\ HasPeer(spc[Me], did.id)
  /\ spc[Me].tasks = <<>>

\* the answers to S among the messages of the last step
AnswersSent(cs, S) == Len(SelectSeq(cs.sent, LAMBDA m : m.kind = "answer" /\ m.target = S))

\* the pending transport operations `op` of description type `type` for the peers with id S
Awaiting(cs, S, op, type) ==
  Cardinality({k \in 1..Len(cs.tasks) :
     cs.tasks[k].t = op /\ cs.tasks[k].type = type /\ cs.peers[cs.tasks[k].e].id = S})

\* C22: an offer of S creates S's entry if it is absent and starts applying
\* the offer; the creation of an answer starts only when an offer of S was
\* applied with success, and an answer goes out only when its creation
\* succeeded, once, to S; when applying the offer or creating the answer fails,
\* the failure is logged and nothing else happens: no answer, no notification,
\* and the table stays as it is.
C22_Step ==
  \A S \in PeerIds :
    LET applying == Awaiting(spc[Me], S, "setRemote", "offer")
        applying2 == Awaiting(spc'[Me], S, "setRemote", "offer")
        creating == Awaiting(spc[Me], S, "createAnswer", "answer")
        creating2 == Awaiting(spc'[Me], S, "createAnswer", "answer")
        failed == /\ spc'[Me].errors = 1 /\ spc'[Me].sent = <<>> /\ spc'[Me].events = <<>>
                  /\ ~spc'[Me].threw
                  /\ spc'[Me].peerConnections = spc[Me].peerConnections
                  /\ spc'[Me].peers = spc[Me].peers
                  /\ spc'[Me].conns = spc[Me].conns
    IN CASE did'.op = "offer" /\ did'.id = S ->
              /\ TableIds(spc'[Me]) = IF did'.had THEN TableIds(spc[Me]) ELSE Append(TableIds(spc[Me]), S)
              /\ applying2 = applying + 1 /\ creating2 = creating
              /\ spc'[Me].tasks[Len(spc'[Me].tasks)].h = spc'[Me].peers[FoundPeer(spc'[Me], S)].connection
              /\ AnswersSent(spc'[Me], S) = 0
         [] did'.op = "remoteDescriptionSet" /\ did'.id = S /\ applying2 < applying ->
              /\ applying2 = applying - 1
              /\ AnswersSent(spc'[Me], S) = 0
              /\ IF spc'[Me].errors = 0 THEN creating2 = creating + 1
                 ELSE creating2 = creating /\ failed
         [] did'.op = "answerCreated" /\ did'.id = S ->
              /\ applying2 = applying /\ creating2 = creating - 1
              /\ IF spc'[Me].errors = 0
                 THEN /\ AnswersSent(spc'[Me], S) = 1
                      /\ TableIds(spc'[Me]) = TableIds(spc[Me])
                 ELSE failed
         [] OTHER ->
              /\ applying2 = applying /\ creating2 = creating
              /\ AnswersSent(spc'[Me], S) = 0

C22_AnswerAfterOffer == [][C22_Step]_vars

\* the answer to the offer of a sender that was not in the table went out
C22_Witness ==
  /\ did.op = "answerCreated"
  /\ spc[Me].errors = 0
  /\ AnswersSent(spc[Me], did.id) = 1 /\ Len(spc[Me].sent) = 1
  /\ Len(TableIds(spc[Me])) = 1 /\ Len(spc[Me].conns) = 1
  /\ spc[Me].conns[1].sig = "have-remote-offer"

\* creating the answer failed: nothing sent, the sender still in the table
C22_WitnessFailed ==
  /\ did.op = "answerCreated"
  /\ spc[Me].errors = 1
  /\ spc[Me].sent = <<>>
  /\ HasPeer(spc[Me], did.id)

\* handle h was replaced: it is no longer the handle of the peer it was made for
Replaced(cs, h) == cs.peers[cs.conns[h].peer].connection # h

\* what was applied to a handle: descriptions, streams, remote candidates
Applied(conn) == <<conn.sig, conn.local, conn.remote, conn.ice, conn.heard>>

\* a step that replaces the handle of a peer it already had leaves the table
\* and the ids as they were, and binds the new handle, a fresh one, to the peer
C23_Frame ==
  \A e \in 1..Len(spc[Me].peers) :
    spc'[Me].peers[e].connection # spc[Me].peers[e].connection =>
      LET h == spc'[Me].peers[e].connection IN
      /\ spc'[Me].peerConnections = spc[Me].peerConnections
      /\ \A x \in 1..Len(spc[Me].peers) : spc'[Me].peers[x].id = spc[Me].peers[x].id
      /\ h > Len(spc[Me].conns)
      /\ spc'[Me].conns[h].peer = e
      /\ spc'[Me].conns[h].sig = "stable" /\ spc'[Me].conns[h].remote = 0
      /\ \A g \in 1..Len(spc[Me].conns) : spc'[Me].conns[g] = spc[Me].conns[g]

\* nothing is applied to a handle that was replaced
C23_OldHandle ==
  \A h \in 1..Len(spc[Me].conns) :
    Replaced(spc[Me], h) => Applied(spc'[Me].conns[h]) = Applied(spc[Me].conns[h])

C23_FrameHolds == [][C23_Frame]_vars

\* C23: replacing an entry's handle keeps the entry's id and the entries of
\* the table and their order, binds the new handle to the entry, and from then
\* on no description, candidate or stream is applied to the old handle.
C23_HandleReplacement == [][C23_Frame /\ C23_OldHandle]_vars

\* the handle of every peer of the table was replaced in the step by a fresh
\* one, bound to the same peer, to which no stream was added
AllReplaced ==
  \A k \in 1..Len(spc[Me].peerConnections) :
    LET e == spc[Me].peerConnections[k]
        h == spc'[Me].peers[e].connection
    IN /\ h > Len(spc[Me].conns)
       /\ spc'[Me].conns[h]
            = Connection(e, spc[Me].conns[spc[Me].peers[e].connection].remote # 0)

\* C24: removeLocalStream with a local stream clears the reference, sends one
\* streamremoved to each peer of the table and nothing else (no offer, and no
\* offer creation is started), replaces every entry's handle by a fresh one,
\* keeps the table, and emits localStreamRemoved once, after the last
\* streamremoved; a client that receives streamremoved of P emits
\* remoteStreamRemoved(P) once and replaces its handle for P.
C24_Step ==
  /\ (did'.op = "removeLocalStream" /\ spc[Me].localStream) =>
       LET n == Len(spc[Me].peerConnections) IN
       /\ ~spc'[Me].localStream
       /\ spc'[Me].sent
            = [k \in 1..n |-> [kind |-> "streamremoved", target |-> TableIds(spc[Me])[k], stream |-> 0]]
       /\ AllReplaced
       /\ Len(spc'[Me].conns) = Len(spc[Me].conns) + n
       /\ TableIds(spc'[Me]) = TableIds(spc[Me])
       /\ spc'[Me].tasks = spc[Me].tasks
       /\ spc'[Me].events = <<[name |-> "localStreamRemoved", id |-> NoId]>>
       /\ spc'[Me].log = [k \in 1..(n + 1) |->
                            IF k <= n THEN [to |-> "socket", name |-> "streamremoved"]
                            ELSE [to |-> "app", name |-> "localStreamRemoved"]]
       /\ ~spc'[Me].threw
  /\ did'.op = "streamremoved" =>
       LET P == did'.id IN
       /\ spc'[Me].events = <<[name |-> "remoteStreamRemoved", id |-> P]>>
       /\ HasPeer(spc'[Me], P)
       /\ spc'[Me].peers[FoundPeer(spc'[Me], P)].connection > Len(spc[Me].conns)
       /\ Entry(spc'[Me], P).handle.sig = "stable" /\ Entry(spc'[Me], P).handle.remote = 0
       /\ did'.had =>
            /\ TableIds(spc'[Me]) = TableIds(spc[Me])
            /\ Len(spc'[Me].conns) = Len(spc[Me].conns) + 1

C24_RemoveLocalStream == [][C24_Step]_vars

\* the local stream was removed with two peers in the table, one of which
\* held a remote stream
C24_Witness ==
  /\ did.op = "removeLocalStream"
  /\ ~spc[Me].threw
  /\ Len(spc[Me].sent) = 2
  /\ Len(spc[Me].conns) = 4
  /\ \E h \in 3..4 : spc[Me].conns[h].suppress

\* a streamremoved was handled for a peer of the table
C24_WitnessReceived ==
  /\ did.op = "streamremoved" /\ did.had
  /\ Len(spc[Me].conns) = 2
  /\ spc[Me].conns[1].remote # 0

\* C25: peerDisconnected(P) is emitted only by the handler of the relay's
\* disconnect(P), and only that handler takes P's entry out of the table:
\* replacing P's handle, adding or removing the local stream, a streamremoved,
\* offer or answer of P and every transport callback leave P in the table and
\* emit no peerDisconnected.
C25_Step ==
  \A P \in PeerIds :
    ~(did'.op = "disconnect" /\ did'.id = P) =>
      /\ [name |-> "peerDisconnected", id |-> P] \notin Range(spc'[Me].events)
      /\ HasPeer(spc[Me], P) =>
           /\ HasPeer(spc'[Me], P)
           /\ Entry(spc'[Me], P).peer.id = P
           /\ FoundPeer(spc'[Me], P) = FoundPeer(spc[Me], P)

C25_ConnectedAcrossRenegotiation == [][C25_Step]_vars

\* a streamremoved of a peer of the table was handled while the local stream
\* exists: its handle was replaced and a new offer is being created, and the
\* peer is still in the table
C25_Witness ==
  /\ did.op = "streamremoved" /\ did.had
  /\ spc[Me].localStream
  /\ HasPeer(spc[Me], did.id)
  /\ Replaced(spc[Me], 1)
  /\ OffersInCreation(spc[Me], FoundPeer(spc[Me], did.id)) > 0

\* the step ran the callback of a description creation (createOffer or
\* createAnswer) that was invoked on handle h
CreationCallback(h) ==
  \/ /\ did'.op = "offerCreated"
     /\ \E k \in Runnable(spc[Me], "createOffer") :
          spc[Me].tasks[k].h = h /\ spc'[Me] = OnOfferCreated(spc[Me], k)
  \/ /\ did'.op = "answerCreated"
     /\ \E k \in Runnable(spc[Me], "createAnswer") :
          spc[Me].tasks[k].h = h /\ spc'[Me] = OnAnswerCreated(spc[Me], k)

\* every local description being set is set on the handle that created it
C26_SameHandle ==
  \A k \in 1..Len(spc[Me].tasks) :
    spc[Me].tasks[k].t = "setLocal" => spc[Me].tasks[k].by = spc[Me].tasks[k].h

\* the callback of a creation invoked on a handle that was replaced since
\* sets no local description and sends nothing
C26_Step ==
  \A h \in 1..Len(spc[Me].conns) :
    (CreationCallback(h) /\ Replaced(spc[Me], h)) =>
      /\ spc'[Me].sent = <<>>
      /\ \A k \in 1..Len(spc'[Me].tasks) :
           spc'[Me].tasks[k].t = "setLocal" => spc'[Me].tasks[k].by # h

\* C26: a description is applied only to the handle that produced it: when a
\* handle is replaced while the creation of an offer or answer on it is
\* pending, the description the late callback delivers is not set as local
\* description of the replacement handle and is not sent to the peer.
C26_DescriptionOnItsHandle == [][C26_Step]_vars /\ []C26_SameHandle

\* glare: both clients hold a local stream and each has sent the other an
\* offer that no answer has completed
Glare ==
  /\ spc[A].localStream /\ spc[B].localStream
  /\ B \in spc[A].offered /\ A \in spc[B].offered

\* the step applied an offer of `id`, as remote description, to a handle of client c
OfferApplied(c, id) ==
  /\ did'.op = "remoteDescriptionSet" /\ did'.id = id
  /\ \E k \in Runnable(spc[c], "setRemote") :
       /\ spc[c].tasks[k].type = "offer"
       /\ spc'[c] = OnRemoteDescriptionSet(spc[c], k)
       /\ spc'[c].errors = 0
       /\ spc'[c].conns[spc[c].tasks[k].h].sig = "have-remote-offer"

\* no client applies an incoming offer of a peer while its own offer to that
\* peer is outstanding
C27_Step ==
  \A c \in Pair : \A id \in Pair \ {c} :
    (OfferApplied(c, id) /\ spc[c].localStream) => id \notin spc[c].offered

C27_NoOfferOverOffer == [][C27_Step]_vars

\* after a glare the two clients come to tell their applications peerconnected
C27_GlareResolves ==
  /\ Glare ~> EmittedPeerConnected(A, B)
  /\ Glare ~> EmittedPeerConnected(B, A)

\* C27: when two clients that both hold a local stream have each sent the
\* other an offer, neither applies the incoming offer as remote description
\* while its own offer is outstanding, and both still end up connected.
C27_Glare == C27_NoOfferOverOffer /\ C27_GlareResolves

\* client c has processed the relay's disconnect(P)
Processed(c, P) ==
  /\ P \in departed[c]
  /\ \A k \in 1..Len(toClient[c]) : ~(toClient[c][k].kind = "disconnect" /\ toClient[c][k].id = P)

\* the negotiations with P that client state cs has started and not completed
\* the first operation of
StartsWith(cs, P) ==
  Cardinality({k \in 1..Len(cs.tasks) :
     /\ cs.peers[cs.tasks[k].e].id = P
     /\ \/ cs.tasks[k].t = "createOffer"
        \/ cs.tasks[k].t = "setRemote" /\ cs.tasks[k].type = "offer"})

\* a client that has processed disconnect(P) has no entry for P
C28_Gone ==
  \A c \in Pair : \A P \in Pair \ {c} :
    (Present(c) /\ Processed(c, P)) => ~HasPeer(spc[c], P)

\* the handler of disconnect(P) sends nothing
C28_Silent ==
  \A c \in Pair :
    (did'.op = "disconnect" /\ spc'[c] # spc[c]) => spc'[c].sent = <<>>

\* after disconnect(P) was processed no transport operation that starts a
\* negotiation is invoked for P
C28_NoneInvoked ==
  \A c \in Pair : \A P \in Pair \ {c} :
    Processed(c, P) => StartsWith(spc'[c], P) <= StartsWith(spc[c], P)

\* after disconnect(P) was processed no offer is sent to P
C28_NoneSent ==
  \A c \in Pair : \A P \in Pair \ {c} :
    (Processed(c, P) /\ spc'[c] # spc[c]) => OffersSent(spc'[c], P) = 0

C28_Holds == []C28_Gone /\ [][C28_Silent /\ C28_NoneInvoked]_vars

\* C28: once a client has processed disconnect(P), its table never again
\* holds an entry for P and it starts no negotiation with P (no offer is
\* created for P, applied from P, or sent to P), whatever was in flight or
\* pending; a disconnect(P) for a P that is not in the table leaves no entry
\* and sends nothing.
C28_GoneForGood == []C28_Gone /\ [][C28_Silent /\ C28_NoneInvoked /\ C28_NoneSent]_vars

\* disconnect(P) was processed for a P that was not in the table, while the
\* client held a local stream
C28_WitnessUnknown ==
  \E c \in Pair :
    /\ did.op = "disconnect" /\ ~did.had
    /\ Present(c) /\ Processed(c, did.id)
    /\ spc[c].localStream
    /\ Len(spc[c].peers) = 1 /\ spc[c].peerConnections = <<>>

\* C29: a client's table, and every peer object it ever made, holds the id of
\* another participant that has joined, never its own; every message it has
\* sent or is sending that names a target names another participant.
C29_OthersOnly ==
  \A c \in Pair :
    /\ \A e \in 1..Len(spc[c].peers) :
         spc[c].peers[e].id \in Pair \ {c} /\ status[spc[c].peers[e].id] # "new"
    /\ c \notin Range(TableIds(spc[c]))
    /\ \A k \in 1..Len(spc[c].sent) : spc[c].sent[k].target # c
    /\ \A k \in 1..Len(toRelay[c]) : toRelay[c][k].target # c

\* both clients have the other in their table and have sent it an offer, and
\* one has raised a candidate for the other
C29_Witness ==
  /\ HasPeer(spc[A], B) /\ HasPeer(spc[B], A)
  /\ B \in spc[A].offered /\ A \in spc[B].offered
  /\ \E c \in Pair : did.op = "onicecandidate" /\ Len(spc[c].sent) = 1
                     /\ spc[c].sent[1].kind = "icecandidate"

\* C30: removeLocalStream called while there is no local stream fails before
\* it does anything: an exception leaves it, nothing is sent, no handle is
\* made or replaced, the table, the peers and the pending operations are as
\* before, and no notification (localStreamRemoved included) is emitted.
C30_Step ==
  (did'.op = "removeLocalStream" /\ ~spc[Me].localStream) =>
    /\ spc'[Me].threw
    /\ spc'[Me].sent = <<>>
    /\ spc'[Me].events = <<>> /\ spc'[Me].log = <<>>
    /\ spc'[Me].conns = spc[Me].conns
    /\ spc'[Me].peers = spc[Me].peers
    /\ spc'[Me].peerConnections = spc[Me].peerConnections
    /\ spc'[Me].tasks = spc[Me].tasks
    /\ ~spc'[Me].localStream

C30_NoStreamNoEffect == [][C30_Step]_vars

\* removeLocalStream failed with two peers in the table
C30_Witness ==
  /\ did.op = "removeLocalStream"
  /\ spc[Me].threw
  /\ Len(TableIds(spc[Me])) = 2
  /\ Len(spc[Me].conns) = 2

====
